---- MODULE Spec2Model ----
(***************************************************************************)
(* Model of CLIPVectorDB (src/clip_vector_db.py): the Chroma collection of *)
(* image records, the per-file ingestion step add_image, the batch loop    *)
(* build_database, the two queries, the statistics and the clear.          *)
(*                                                                         *)
(* The filesystem is the environment: files are modified, deleted and      *)
(* created while the program runs.  A file is its content and its          *)
(* modification time; st_size and the CLIP embedding are functions of the  *)
(* content.  Embeddings are unit vectors at angles 0, 90 and 180 degrees,  *)
(* so that cosine distances are exactly 0, 1 and 2.                        *)
(***************************************************************************)
EXTENDS Integers, Sequences, FiniteSets, TLC

\* ---------------------------------------------------------------- bounds
NumPaths == 2
MaxFsEvents == 1
MaxInterrupts == 1
MaxFaults == 1

Paths == 1..NumPaths
\* Content 0 is a file PIL cannot decode; the others are images.
Contents == {0, 1, 2}
\* Unit vectors, named by their angle in units of 90 degrees.
Vecs == {0, 1, 2}
\* Streamlit sessions sharing the cached CLIPVectorDB instance.
Threads == {"s1", "s2"}
MainThread == "s1"
TopKs == (0 - (NumPaths + 1))..(NumPaths + 1)

VARIABLES
    fs,         \* the files: [Paths -> [exists, content, mtime]]; mtime counts
                \* every change to the file, its deletions included
    storeUp,    \* whether the persistent store can be read and written
    faults,     \* number of store outages so far
    store,      \* the Chroma client: [exists, space, records]
    th,         \* per thread, the frame of its add_image call
    build,      \* the frame of the build_database call
    ret,        \* what the call that just returned gave back
    hist,       \* per path, history of the current epoch (see NewEpoch)
    folder      \* what the last build of the unchanged folder produced

vars == <<fs, storeUp, faults, store, th, build, ret, hist, folder>>

\* ------------------------------------------------------------- helpers
Min(a, b) == IF a <= b THEN a ELSE b
Max(a, b) == IF a >= b THEN a ELSE b

\* Python's s[:k]
Slice(s, k) ==
    IF k >= 0 THEN SubSeq(s, 1, Min(k, Len(s)))
              ELSE SubSeq(s, 1, Max(0, Len(s) + k))

RECURSIVE SelectIdx(_, _, _)
\* The subsequence of s at the indexes i for which keep[i]
SelectIdx(s, keep, i) ==
    IF i > Len(s) THEN <<>>
    ELSE (IF keep[i] THEN <<s[i]>> ELSE <<>>) \o SelectIdx(s, keep, i + 1)

Orderings(S) ==
    {f \in [1..Cardinality(S) -> S] : \A i, j \in 1..Cardinality(S) : f[i] = f[j] => i = j}

\* ---------------------------------------------------------- filesystem
RECURSIVE Changes(_)
\* Number of changes made to the files 1..n since the start (mtime starts at 1)
Changes(n) == IF n = 0 THEN 0 ELSE (fs[n].mtime - 1) + Changes(n - 1)

fsEvents == Changes(NumPaths)

Exists(p) == fs[p].exists
StatSize(c) == 10 + c
Basename(p) == p

\* encode_image: None (here FALSE) when the file cannot be opened or decoded
CanEncode(p) == fs[p].exists /\ fs[p].content # 0
ImageVector(c) == c - 1

\* ---------------------------------------------------------------- store
FreshStore == [exists |-> TRUE, space |-> "cosine", records |-> {}]

InitDatabase(s) == IF s.exists THEN s ELSE FreshStore

DeleteCollection(s) == [exists |-> FALSE, space |-> "none", records |-> {}]

Usable == storeUp /\ store.exists

Ids(records) == {r.id : r \in records}

Get(records, id) == {r \in records : r.id = id}

UpsertAppend(records, rec) == records \cup {rec}

UpsertKeepMetadata(records, rec) ==
    IF Get(records, rec.id) = {} THEN records \cup {rec}
    ELSE {IF r.id = rec.id
          THEN [r EXCEPT !.embedding = rec.embedding, !.vector_by = rec.vector_by]
          ELSE r : r \in records}

Upsert(records, rec) == {r \in records : r.id # rec.id} \cup {rec}

CosineDistance(u, v) == IF u >= v THEN u - v ELSE v - u

\* The n nearest records to qv, by ascending distance; ties in any order.
QueryResults(records, qv, n) ==
    LET rows == {<<r.id, CosineDistance(qv, r.embedding)>> : r \in records}
        ranked == {f \in Orderings(rows) :
                     \A i \in 1..(Cardinality(rows) - 1) : f[i][2] <= f[i + 1][2]}
    IN {SubSeq(f, 1, Min(n, Cardinality(rows))) : f \in ranked}

\* collection.query: raises when the store is unusable or n_results <= 0
QueryOutcomes(qv, n) ==
    IF ~Usable \/ n <= 0
    THEN {[raised |-> TRUE, rows |-> <<>>]}
    ELSE {[raised |-> FALSE, rows |-> rows] : rows \in QueryResults(store.records, qv, n)}

\* --------------------------------------------------------------- frames
IdleFrame == [pc |-> "idle", caller |-> "none", image_path |-> 0, file_size |-> 0,
              modified_time |-> 0, vector |-> 0, existing |-> 0,
              embedded |-> FALSE, wrote |-> FALSE, after_success |-> FALSE]

IdleBuild == [pc |-> "idle", image_files |-> <<>>, total_files |-> 0, i |-> 0,
              progress |-> <<>>, failed |-> 0, embedded |-> 0,
              from_empty |-> FALSE, changed |-> FALSE, store_failed_at |-> 0,
              raised |-> FALSE]

NoRet == [op |-> "none"]

NewEpoch == [encodes |-> 0, discarded |-> 0, succeeded |-> FALSE]

UnknownFolder == [count |-> 0 - 1, cleared |-> FALSE]

RECURSIVE Discarded(_)
\* Number of embeddings of the files 1..n lost to an interrupt in their epochs
Discarded(n) == IF n = 0 THEN 0 ELSE hist[n].discarded + Discarded(n - 1)

Quiescent == build.pc = "idle" /\ ret = NoRet /\ \A t \in Threads : th[t].pc = "idle"

Init ==
    /\ fs = [p \in Paths |-> [exists |-> TRUE, content |-> 1 + (p % 2), mtime |-> 1]]
    /\ storeUp = TRUE
    /\ faults = 0
    /\ store = InitDatabase([exists |-> FALSE, space |-> "none", records |-> {}])
    /\ th = [t \in Threads |-> IdleFrame]
    /\ build = IdleBuild
    /\ ret = NoRet
    /\ hist = [p \in Paths |-> NewEpoch]
    /\ folder = UnknownFolder

\* ------------------------------------------------------------ add_image
\* line 75: the freshness test
UpToDateIfPresent(existing_modified_time, modified_time) == TRUE

UpToDateNever(existing_modified_time, modified_time) == FALSE

UpToDate(existing_modified_time, modified_time) == existing_modified_time = modified_time

\* lines 95-97: every exception is printed and add_image returns False
AddImageExcept == "False"

Record(f, t) ==
    [id |-> f.image_path, embedding |-> f.vector, file_size |-> f.file_size,
     modified_time |-> f.modified_time, file_name |-> Basename(f.image_path),
     vector_by |-> t, metadata_by |-> t]

Succeed(h, p, result) == IF result = "True" THEN [h EXCEPT ![p].succeeded = TRUE] ELSE h

\* add_image returns `result` to its caller: the build loop or the API user.
AddReturn(t, f, result, outcome) ==
    /\ th' = [th EXCEPT ![t] = IdleFrame]
    /\ ret' = [op |-> "add_image", thread |-> t, image_path |-> f.image_path,
               result |-> result, outcome |-> outcome, existing |-> f.existing,
               file_size |-> f.file_size, modified_time |-> f.modified_time,
               embedded |-> f.embedded, wrote |-> f.wrote,
               after_success |-> f.after_success]
    /\ build' = IF f.caller # "build" THEN build
                ELSE IF result = "raise"
                THEN [build EXCEPT !.pc = "raise", !.raised = TRUE]
                ELSE [build EXCEPT
                        !.pc = "callback",
                        !.failed = @ + (IF result = "True" THEN 0 ELSE 1),
                        !.embedded = @ + (IF f.embedded THEN 1 ELSE 0),
                        !.store_failed_at =
                            IF outcome = "store_exception" /\ @ = 0 THEN build.i + 1 ELSE @]

StartAddImage(t, p, caller) ==
    /\ th[t].pc = "idle"
    /\ th' = [th EXCEPT ![t] = [IdleFrame EXCEPT !.pc = "exists", !.caller = caller,
                                  !.image_path = p,
                                  !.after_success = hist[p].succeeded]]

\* line 64
AddExists(t) ==
    LET f == th[t] IN
    /\ ret = NoRet
    /\ f.pc = "exists"
    /\ IF Exists(f.image_path)
       THEN /\ th' = [th EXCEPT ![t].pc = "stat"]
            /\ ret' = NoRet
            /\ UNCHANGED <<build, hist>>
       ELSE /\ AddReturn(t, f, "False", "missing")
            /\ UNCHANGED hist
    /\ UNCHANGED <<fs, storeUp, faults, store, folder>>

\* lines 68-70; os.stat raises when the file has vanished since line 64
AddStat(t) ==
    LET f == th[t] IN
    /\ ret = NoRet
    /\ f.pc = "stat"
    /\ IF Exists(f.image_path)
       THEN /\ th' = [th EXCEPT ![t].pc = "get",
                                ![t].file_size = StatSize(fs[f.image_path].content),
                                ![t].modified_time = fs[f.image_path].mtime]
            /\ ret' = NoRet
            /\ UNCHANGED build
       ELSE AddReturn(t, f, AddImageExcept, "missing")
    /\ UNCHANGED <<fs, storeUp, faults, store, hist, folder>>

\* lines 72-76
AddGet(t) ==
    LET f == th[t]
        existing == Get(store.records, f.image_path)
        stored == IF existing = {} THEN 0 ELSE (CHOOSE r \in existing : TRUE).modified_time
        g == [f EXCEPT !.existing = stored]
    IN
    /\ ret = NoRet
    /\ f.pc = "get"
    /\ IF ~Usable
       THEN /\ AddReturn(t, f, AddImageExcept, "store_exception")
            /\ UNCHANGED hist
       ELSE IF existing # {} /\ UpToDate(stored, f.modified_time)
       THEN /\ AddReturn(t, g, "True", "fresh")
            /\ hist' = Succeed(hist, f.image_path, "True")
       ELSE /\ th' = [th EXCEPT ![t] = [g EXCEPT !.pc = "encode"]]
            /\ ret' = NoRet
            /\ UNCHANGED <<build, hist>>
    /\ UNCHANGED <<fs, storeUp, faults, store, folder>>

\* lines 78-80, with encode_image (lines 36-48)
AddEncode(t) ==
    LET f == th[t] IN
    /\ ret = NoRet
    /\ f.pc = "encode"
    /\ IF CanEncode(f.image_path)
       THEN /\ th' = [th EXCEPT ![t].pc = "upsert",
                                ![t].vector = ImageVector(fs[f.image_path].content),
                                ![t].embedded = TRUE]
            /\ hist' = [hist EXCEPT ![f.image_path].encodes = @ + 1]
            /\ ret' = NoRet
            /\ UNCHANGED build
       ELSE /\ AddReturn(t, f, "False", "encode_failed")
            /\ UNCHANGED hist
    /\ UNCHANGED <<fs, storeUp, faults, store, folder>>

\* lines 82-94
AddUpsert(t) ==
    LET f == th[t] IN
    /\ ret = NoRet
    /\ f.pc = "upsert"
    /\ IF ~Usable
       THEN /\ AddReturn(t, f, AddImageExcept, "store_exception")
            /\ UNCHANGED <<store, hist>>
       ELSE /\ store' = [store EXCEPT !.records = Upsert(@, Record(f, t))]
            /\ AddReturn(t, [f EXCEPT !.wrote = TRUE], "True", "stored")
            /\ hist' = Succeed(hist, f.image_path, "True")
    /\ UNCHANGED <<fs, storeUp, faults, folder>>

AddImageStep(t) ==
    \/ AddExists(t)
    \/ AddStat(t)
    \/ AddGet(t)
    \/ AddEncode(t)
    \/ AddUpsert(t)

\* API call add_image(p) by session t
AddImage(t, p) ==
    /\ ret = NoRet
    /\ StartAddImage(t, p, "api")
    /\ ret' = NoRet
    /\ UNCHANGED <<fs, storeUp, faults, store, build, hist, folder>>

\* ------------------------------------------------------- build_database
\* lines 103-110: os.walk lists the image files that exist, in its own order
\* (every file of the model carries one of the image extensions)
Enumerate == Orderings({p \in Paths : Exists(p)})

FilesDoneOffByOne(i) == i

\* line 116-117: the loop index i counts from 0
FilesDone(i) == i + 1

BuildStart ==
    /\ Quiescent
    /\ \E image_files \in Enumerate :
         build' = [IdleBuild EXCEPT !.pc = "loop", !.image_files = image_files,
                                    !.total_files = Len(image_files),
                                    !.from_empty = (store.records = {})]
    /\ ret' = NoRet
    /\ UNCHANGED <<fs, storeUp, faults, store, th, hist, folder>>

\* line 113
BuildCall ==
    /\ ret = NoRet
    /\ build.pc = "loop"
    /\ build.i < build.total_files
    /\ StartAddImage(MainThread, build.image_files[build.i + 1], "build")
    /\ build' = [build EXCEPT !.pc = "call"]
    /\ ret' = NoRet
    /\ UNCHANGED <<fs, storeUp, faults, store, hist, folder>>

\* lines 115-117, with a progress_callback given (as src/app.py line 160 does);
\* the fraction (i + 1) / total_files is kept as the pair <<i + 1, total_files>>
BuildCallback ==
    /\ build.pc = "callback"
    /\ build' = [build EXCEPT
                   !.pc = "loop",
                   !.i = @ + 1,
                   !.progress = Append(@, [progress |-> <<FilesDone(build.i), build.total_files>>,
                                           current |-> FilesDone(build.i),
                                           total |-> build.total_files,
                                           filename |-> Basename(build.image_files[build.i + 1])])]
    /\ ret' = NoRet
    /\ UNCHANGED <<fs, storeUp, faults, store, th, hist, folder>>

\* The loop is over (or an exception left it): build_database returns.
BuildReturn ==
    LET clean == build.from_empty /\ ~build.changed /\ ~build.raised IN
    /\ \/ build.pc = "loop" /\ build.i = build.total_files
       \/ build.pc = "raise"
    /\ ret' = [op |-> "build_database", raised |-> build.raised,
               image_files |-> build.image_files, total_files |-> build.total_files,
               progress |-> build.progress, failed |-> build.failed,
               embedded |-> build.embedded, from_empty |-> build.from_empty,
               clean |-> clean, count |-> Cardinality(store.records),
               before |-> folder]
    /\ folder' = IF clean THEN [count |-> Cardinality(store.records), cleared |-> FALSE]
                 ELSE folder
    /\ build' = IdleBuild
    /\ UNCHANGED <<fs, storeUp, faults, store, th, hist>>

\* --------------------------------------------------------------- queries
IsSelfNever(file_path, query_image_path) == FALSE

\* line 133
IsSelf(file_path, query_image_path) == file_path = query_image_path

SimilarityIsDistance(cosine_distance) == cosine_distance

\* lines 136 and 158
CosineSimilarity(cosine_distance) == 1 - cosine_distance

TruncateNot(similarities, top_k) == similarities

\* lines 139 and 161
Truncate(similarities, top_k) == Slice(similarities, top_k)

\* lines 131-137: the rows of the store that are not the query itself, scored
Similarities(rows, query_image_path) ==
    LET keep == [i \in 1..Len(rows) |-> ~IsSelf(rows[i][1], query_image_path)]
        kept == SelectIdx(rows, keep, 1)
    IN [i \in 1..Len(kept) |-> <<kept[i][1], CosineSimilarity(kept[i][2])>>]

\* lines 156-159
TextSimilarities(rows) ==
    [i \in 1..Len(rows) |-> <<rows[i][1], CosineSimilarity(rows[i][2])>>]

\* collection.count()
Count == Cardinality(store.records)

\* lines 140-142 and 162-164: the exception is printed, the result is []
SearchExcept == <<>>

\* The images a query can name: the files of the folder, and the temporary file
\* the application writes an uploaded image to (path 0, never indexed).
QueryImages ==
    {[path |-> p, readable |-> CanEncode(p), content |-> fs[p].content] : p \in Paths}
    \cup {[path |-> 0, readable |-> c # 0, content |-> c] : c \in Contents}

\* lines 119-142
SearchSimilar(query, top_k) ==
    /\ Quiescent
    /\ IF ~query.readable
       THEN ret' = [op |-> "search_similar", query |-> query.path, top_k |-> top_k,
                    count |-> Count, encoded |-> FALSE, rows |-> <<>>, out |-> <<>>]
       ELSE \E q \in QueryOutcomes(ImageVector(query.content), Min(top_k + 1, Count)) :
              ret' = [op |-> "search_similar", query |-> query.path, top_k |-> top_k,
                      count |-> Count, encoded |-> TRUE, rows |-> q.rows,
                      out |-> IF q.raised THEN SearchExcept
                              ELSE Truncate(Similarities(q.rows, query.path), top_k)]
    /\ UNCHANGED <<fs, storeUp, faults, store, th, build, hist, folder>>

\* lines 144-164; encode_text gives any unit vector, or None
SearchByText(query_vector, top_k) ==
    /\ Quiescent
    /\ IF query_vector \notin Vecs
       THEN ret' = [op |-> "search_by_text", query |-> 0, top_k |-> top_k,
                    count |-> Count, encoded |-> FALSE, rows |-> <<>>, out |-> <<>>]
       ELSE \E q \in QueryOutcomes(query_vector, Min(top_k, Count)) :
              ret' = [op |-> "search_by_text", query |-> 0, top_k |-> top_k,
                      count |-> Count, encoded |-> TRUE, rows |-> q.rows,
                      out |-> IF q.raised THEN SearchExcept
                              ELSE Truncate(TextSimilarities(q.rows), top_k)]
    /\ UNCHANGED <<fs, storeUp, faults, store, th, build, hist, folder>>

\* ------------------------------------------------------------- lifecycle
\* lines 166-172
TotalImages == IF Usable THEN Count ELSE 0

GetDatabaseStats ==
    /\ Quiescent
    /\ ret' = [op |-> "get_database_stats", total_images |-> TotalImages]
    /\ UNCHANGED <<fs, storeUp, faults, store, th, build, hist, folder>>

ClearDatabaseWithoutInit ==
    /\ Quiescent
    /\ store' = DeleteCollection(store)
    /\ hist' = [p \in Paths |-> NewEpoch]
    /\ folder' = [folder EXCEPT !.cleared = TRUE]
    /\ ret' = [op |-> "clear_database", result |-> TRUE]
    /\ UNCHANGED <<fs, storeUp, faults, th, build>>

\* lines 174-184
ClearDatabase ==
    /\ Quiescent
    /\ IF Usable
       THEN /\ store' = InitDatabase(DeleteCollection(store))
            /\ hist' = [p \in Paths |-> NewEpoch]
            /\ folder' = [folder EXCEPT !.cleared = TRUE]
            /\ ret' = [op |-> "clear_database", result |-> TRUE]
       ELSE /\ ret' = [op |-> "clear_database", result |-> FALSE]
            /\ UNCHANGED <<store, hist, folder>>
    /\ UNCHANGED <<fs, storeUp, faults, th, build>>

\* ----------------------------------------------------------- environment
\* A filesystem change to p starts a new epoch of p.
Touched(p) == [hist EXCEPT ![p] = NewEpoch]

\* The file p is written with content c, created if it was deleted.
Write(p, c) ==
    /\ ret = NoRet
    /\ fsEvents < MaxFsEvents
    /\ ~fs[p].exists \/ c # fs[p].content
    /\ fs' = [fs EXCEPT ![p] = [exists |-> TRUE, content |-> c, mtime |-> @.mtime + 1]]
    /\ hist' = Touched(p)
    /\ folder' = UnknownFolder
    /\ build' = IF build.pc = "idle" THEN build ELSE [build EXCEPT !.changed = TRUE]
    /\ UNCHANGED <<storeUp, faults, store, th, ret>>

Delete(p) ==
    /\ ret = NoRet
    /\ fsEvents < MaxFsEvents
    /\ fs[p].exists
    /\ fs' = [fs EXCEPT ![p] = [exists |-> FALSE, content |-> 0, mtime |-> @.mtime + 1]]
    /\ hist' = Touched(p)
    /\ folder' = UnknownFolder
    /\ build' = IF build.pc = "idle" THEN build ELSE [build EXCEPT !.changed = TRUE]
    /\ UNCHANGED <<storeUp, faults, store, th, ret>>

\* The process is killed during a build and started again: the calls in progress
\* are gone, the persisted collection is reopened.  An embedding computed and not
\* yet upserted is lost.
Interrupt ==
    /\ ret = NoRet
    /\ build.pc # "idle"
    /\ (\E t \in Threads : th[t].pc = "upsert") => Discarded(NumPaths) < MaxInterrupts
    /\ th' = [t \in Threads |-> IdleFrame]
    /\ build' = IdleBuild
    /\ hist' = [p \in Paths |->
                 IF \E t \in Threads : th[t].pc = "upsert" /\ th[t].image_path = p
                 THEN [hist[p] EXCEPT !.discarded = @ + 1] ELSE hist[p]]
    /\ store' = InitDatabase(store)
    /\ ret' = NoRet
    /\ UNCHANGED <<fs, storeUp, faults, folder>>

StoreFails ==
    /\ ret = NoRet
    /\ storeUp
    /\ faults < MaxFaults
    /\ storeUp' = FALSE
    /\ faults' = faults + 1
    /\ ret' = NoRet
    /\ UNCHANGED <<fs, store, th, build, hist, folder>>

StoreRecovers ==
    /\ ret = NoRet
    /\ ~storeUp
    /\ storeUp' = TRUE
    /\ ret' = NoRet
    /\ UNCHANGED <<fs, faults, store, th, build, hist, folder>>

\* The API user takes what the call returned.
Taken ==
    /\ ret # NoRet
    /\ build.pc = "idle"
    /\ ret' = NoRet
    /\ UNCHANGED <<fs, storeUp, faults, store, th, build, hist, folder>>

\* -------------------------------------------------------- specifications
\* The filesystem changes under the running program.
Environment ==
    \/ \E p \in Paths, c \in Contents : Write(p, c)
    \/ \E p \in Paths : Delete(p)

\* One session: the calls of the API one after another.
Sequential ==
    \/ \E p \in Paths : Quiescent /\ AddImage(MainThread, p)
    \/ AddImageStep(MainThread)
    \/ BuildStart
    \/ BuildCall
    \/ BuildCallback
    \/ BuildReturn
    \/ GetDatabaseStats
    \/ ClearDatabase
    \/ Taken

Queries ==
    \/ \E query \in QueryImages, top_k \in TopKs : SearchSimilar(query, top_k)
    \/ \E v \in Vecs \cup {0 - 1}, top_k \in TopKs : SearchByText(v, top_k)

Next == Sequential \/ Queries \/ Environment

Spec == Init /\ [][Next]_vars

\* One session whose process is killed and restarted, the files left alone.
NextRestart == Sequential \/ Interrupt

SpecRestart == Init /\ [][NextRestart]_vars

\* The same, with the persistent store failing and recovering.
NextFault == Sequential \/ Queries \/ Environment \/ StoreFails \/ StoreRecovers

SpecFault == Init /\ [][NextFault]_vars

\* Two sessions calling add_image on the shared instance at the same time, the
\* files left alone.
NextConc ==
    \/ \E t \in Threads, p \in Paths : AddImage(t, p)
    \/ \E t \in Threads : AddImageStep(t)
    \/ Taken

SpecConc == Init /\ [][NextConc]_vars
\* ------------------------------------------------------------ properties
RecordsOf(p) == Get(store.records, p)

IsSearch == ret.op \in {"search_similar", "search_by_text"}

\* C1, as stated: once an add_image of a file has succeeded (the file not modified,
\* the index not cleared, the build possibly interrupted and restarted), the
\* collection holds exactly one record of it and its embedding was computed
\* exactly once.
C1_EmbeddedExactlyOnce ==
    \A p \in Paths :
        hist[p].succeeded => Cardinality(RecordsOf(p)) = 1 /\ hist[p].encodes = 1

\* C1, amended: once an add_image of an unmodified file has succeeded, the
\* collection holds exactly one record of it, and its embedding was computed once,
\* plus once for every interrupt that struck between the embedding and the upsert;
\* every later call returns True at the freshness check and neither embeds nor
\* writes.
C1_Idempotent ==
    /\ \A p \in Paths :
          hist[p].succeeded =>
              /\ Cardinality(RecordsOf(p)) = 1
              /\ hist[p].encodes = 1 + hist[p].discarded
    /\ (ret.op = "add_image" /\ ret.after_success) =>
          /\ ret.result = "True"
          /\ ret.outcome = "fresh"
          /\ ~ret.embedded
          /\ ~ret.wrote

\* A call on a file already ingested, whose first ingestion was interrupted
\* between the embedding and the upsert and then repeated.
C1_Witness ==
    /\ ret.op = "add_image"
    /\ ret.after_success
    /\ ret.outcome = "fresh"
    /\ hist[ret.image_path].discarded = 1
    /\ hist[ret.image_path].encodes = 2

\* C2: an add_image that found its file present and decodable has embedded and
\* upserted if and only if the store held no record of the path or a record whose
\* modified_time differs from the one os.stat gave; after an upsert the record
\* carries the file_size and modified_time that this call read.
C2_Freshness ==
    (ret.op = "add_image" /\ ret.outcome \in {"fresh", "stored"}) =>
        /\ ret.result = "True"
        /\ ret.embedded <=> ret.wrote
        /\ ret.wrote <=> (ret.existing = 0 \/ ret.existing # ret.modified_time)
        /\ ret.wrote =>
              \A r \in RecordsOf(ret.image_path) :
                  r.file_size = ret.file_size /\ r.modified_time = ret.modified_time

\* A file modified after its ingestion is embedded again.
C2_Witness ==
    /\ ret.op = "add_image"
    /\ ret.outcome = "stored"
    /\ ret.existing # 0
    /\ ret.existing # ret.modified_time

\* C3: search_similar never returns the query's own path.
C3_SelfExclusion ==
    ret.op = "search_similar" =>
        \A i \in 1..Len(ret.out) : ret.out[i][1] # ret.query

\* The store returned the query itself at distance 0, and something else too.
C3_Witness ==
    /\ ret.op = "search_similar"
    /\ \E i \in 1..Len(ret.rows) : ret.rows[i] = <<ret.query, 0>>
    /\ Len(ret.out) >= 1

\* C4: both searches return at most max(0, min(top_k, count)) results, whatever
\* top_k and the collection are.
C4_SizeBound ==
    IsSearch => Len(ret.out) <= Max(0, Min(ret.top_k, ret.count))

\* A search asking for more than the collection holds.
C4_Witness ==
    /\ IsSearch
    /\ ret.top_k > ret.count
    /\ ret.count >= 2
    /\ Len(ret.out) = ret.count

C6_BuildIsolation ==
    ret.op = "build_database" =>
        /\ ~ret.raised
        /\ Len(ret.progress) = ret.total_files
        /\ \A k \in 1..Len(ret.progress) :
              /\ ret.progress[k].current = k
              /\ ret.progress[k].total = ret.total_files
              /\ ret.progress[k].progress = <<k, ret.total_files>>
              /\ 0 < k /\ k <= ret.total_files
              /\ ret.progress[k].filename = Basename(ret.image_files[k])
        /\ ret.from_empty => ret.count = ret.total_files - ret.failed

\* A build over two files or more, one of which failed.
C6_Witness ==
    /\ ret.op = "build_database"
    /\ ret.from_empty
    /\ ret.total_files >= 2
    /\ ret.failed >= 1
    /\ ret.count >= 1

\* C7: after clear_database the store is the fresh empty store (cosine space) and
\* the statistics report 0 images; a build of the unchanged folder on the emptied
\* index embeds every file it ingests and gives the record count the folder gave
\* before.
C7_ClearRebuild ==
    /\ ret.op = "clear_database" => (store = FreshStore /\ TotalImages = 0)
    /\ (ret.op = "build_database" /\ ret.clean /\ ret.before.count >= 0) =>
          /\ ret.count = ret.before.count
          /\ ret.embedded = ret.count
          /\ ret.embedded = ret.total_files - ret.failed

\* The rebuild after a clear of a folder that had given records.
C7_Witness ==
    /\ ret.op = "build_database"
    /\ ret.clean
    /\ ret.before.cleared
    /\ ret.before.count >= 1
    /\ ret.count = ret.before.count

\* C8, as stated: once the store has failed under a file of a build, the loop
\* goes no further than that file.
C8_StoreFailureAborts ==
    build.store_failed_at > 0 => build.i < build.store_failed_at

AtMostOneRecordPerPath == \A p \in Paths : Cardinality(RecordsOf(p)) <= 1

LifecycleStep ==
    /\ store.records' # store.records =>
          \/ ret'.op = "clear_database"
          \/ /\ ret'.op = "add_image"
             /\ ret'.outcome = "stored"
             /\ th[ret'.thread].pc = "upsert"
             /\ Ids(store.records') = Ids(store.records) \cup {ret'.image_path}
             /\ \A r \in store.records :
                   r.id # ret'.image_path => r \in store.records'
    /\ ret'.op # "clear_database" =>
          /\ Ids(store.records) \subseteq Ids(store.records')
          /\ Cardinality(store.records') >= Cardinality(store.records)
    /\ ret'.op \in {"search_similar", "search_by_text", "get_database_stats"} =>
          store' = store
    /\ (ret'.op = "add_image" /\ ret'.outcome \in {"missing", "fresh", "encode_failed"}) =>
          store' = store

\* C9: the collection holds at most one record per path; only the upsert of
\* add_image creates or changes a record and only clear_database removes one; the
\* searches, the statistics and the add_image calls that end early leave the
\* collection as it is.
C9_Lifecycle == []AtMostOneRecordPerPath /\ [][LifecycleStep]_vars

\* A build has returned and the record of a deleted file is still there.
C9_Witness ==
    /\ ret.op = "build_database"
    /\ \E r \in store.records : ~fs[r.id].exists

\* C10: with two sessions in add_image on unmodified files, a path has at most
\* one record, exactly one once a call on it has succeeded; the record's vector
\* and metadata were written by the same call and are those of the file; the
\* embedding of a file is computed at most once per session.
C10_Concurrent ==
    \A p \in Paths :
        /\ Cardinality(RecordsOf(p)) <= 1
        /\ hist[p].succeeded => Cardinality(RecordsOf(p)) = 1
        /\ hist[p].encodes <= Cardinality(Threads)
        /\ \A r \in RecordsOf(p) :
              /\ r.vector_by = r.metadata_by
              /\ r.embedding = ImageVector(fs[p].content)
              /\ r.modified_time = fs[p].mtime
              /\ r.file_size = StatSize(fs[p].content)

\* Both sessions found the record stale, both embedded, both have returned.
C10_Witness ==
    /\ \A t \in Threads : th[t].pc = "idle"
    /\ \E p \in Paths : hist[p].encodes = 2 /\ Cardinality(RecordsOf(p)) = 1
====
